---- MODULE Spec2Model ----
(***************************************************************************)
(* The DNS-01 challenge record lifecycle of two lego DNS providers:        *)
(*   cloudflare  (providers/dns/cloudflare/cloudflare.go)                  *)
(*   infoblox    (the second provider source, recordRefs / recordRefsMu)   *)
(* Each provider keeps a mutex-protected map from challenge token to the   *)
(* backend's record reference; Present creates a TXT record and stores     *)
(* the reference, CleanUp looks the reference up, deletes the record and   *)
(* removes the map entry.  Callers run Present / CleanUp concurrently.     *)
(*                                                                         *)
(* One behaviour is the life of one provider object; which of the two      *)
(* providers it is, is fixed by Init.  Every statement of Present and      *)
(* CleanUp that touches the map, the mutex or the backend is one action.   *)
(* The domain and keyAuth arguments only determine the record's name and   *)
(* value and the text of error messages, so they are not state.            *)
(***************************************************************************)
EXTENDS Integers, Sequences, FiniteSets

\* Bounds of the model.
MaxCalls == 3       \* Present/CleanUp calls started in one behaviour

Procs  == {1, 2}    \* concurrent callers (goroutines)
Tokens == {1, 2}    \* challenge tokens
CallIds == 1..MaxCalls

\* A record reference / record ID is the id of the call whose create
\* request the backend answered: the backend issues a fresh one per record.
NoRef == 0
\* The cloudflare client built once by NewDNSProviderConfig.
SharedClient == 0
Free == 0

VARIABLES
  backend,       \* "cloudflare" or "infoblox": which provider this object is
  config,        \* the Config given to NewDNSProviderConfig (d.config)
  newErr,        \* the error NewDNSProviderConfig returned ("nil": a provider)
  store,         \* d.recordIDs / d.recordRefs : token -> reference (NoRef: no key)
  mu,            \* d.recordIDsMu / d.recordRefsMu : Free or the holder
  records,       \* references of the TXT records that exist at the backend
  openSessions,  \* infoblox connectors created and not yet logged out
  nCalls,        \* calls started so far
  pc,            \* per caller: position in Present / CleanUp
  op,            \* per caller: "Present" or "CleanUp" (or "none")
  tok,           \* per caller: token argument
  cid,           \* per caller: id of the current / last call
  sess,          \* per caller: client / connector the call uses
  ref,           \* per caller: response.ID / record.Ref / recordID / recordRef
  found,         \* per caller: `ok` of the map lookup
  result,        \* per caller: returned error ("nil" is success)
  timeout,       \* (timeout, interval) returned by the most recently started
                 \* call when that call was Timeout (<<>> otherwise)
  \* ---- history variables (observations, never read by the actions) ----
  bops,          \* per caller: backend calls made by the current call
  sops,          \* per caller: map operations made by the current call
  users,         \* session -> ids of the calls that used it
  lastWriter,    \* token -> id of the last call (for that token) that wrote the map
  everPut,       \* tokens ever stored by a Present
  putRefs,       \* token -> the references Presents have stored under it
  oob,           \* some record was deleted out-of-band
  overwrote,     \* some Present replaced a key that was present
  overlap,       \* the most recently started call began while another call
                 \* was in progress
  raced,         \* some call began while another call for the same token was
                 \* in progress (the callers did not serialise that token)
  nTok           \* number of distinct tokens passed to Present/CleanUp so far

progVars == <<backend, config, newErr, timeout, store, mu, records, openSessions, nCalls,
              pc, op, tok, cid, sess, ref, found, result, timeout>>
histVars == <<bops, sops, users, lastWriter, everPut, putRefs, oob, overwrote, overlap, raced, nTok>>
vars == <<progVars, histVars>>

Backends == {"cloudflare", "infoblox"}

\* cloudflare: const minTTL
minTTL == 120

\* NewDefaultConfig with no environment override: the TTL defaults to minTTL
\* (dns01.DefaultTTL has the same value), the propagation timeout to two
\* minutes and the polling interval to dns01.DefaultPollingInterval (seconds).
\* Credentials and endpoints are taken to be present and are not state.
NewDefaultConfig ==
  [TTL |-> minTTL, PropagationTimeout |-> 120, PollingInterval |-> 2]

\* Configurations a caller may pass to NewDNSProviderConfig.
Configs ==
  {[NewDefaultConfig EXCEPT !.TTL = t] : t \in {-1, minTTL - 1, minTTL}}

\* NewDNSProviderConfig(config): the error it returns.  cloudflare rejects a
\* TTL below minTTL; infoblox checks host and credentials only.
NewDNSProviderConfig(b, c) ==
  IF b = "cloudflare" /\ c.TTL < minTTL THEN "errTTL" ELSE "nil"

\* A 32-bit unsigned value v is written <<v \div 2^16, v % 2^16>>.
Word(n) == <<n \div 65536, n % 65536>>

\* uint32(n) for an int n >= -2^16: two's complement wrap of a negative n.
Uint32(n) == IF n >= 0 THEN Word(n) ELSE <<65535, 65536 + n>>

\* The TTL of the record a Present asks the backend to create:
\* cloudflare TTL: d.config.TTL; infoblox uint32(d.config.TTL).
RecordTTL == IF backend = "cloudflare" THEN Word(config.TTL) ELSE Uint32(config.TTL)

InFlight(p) == pc[p] \notin {"idle", "done"}

\* One backend call of the current call of p, with its outcome and argument.
BackendCall(p, name, res, arg) ==
  bops' = [bops EXCEPT ![p] = Append(@, [call |-> name, res |-> res, arg |-> arg])]

\* The create request of p's current call: outcome, reference returned, TTL sent.
CreateCall(p, res, r) ==
  bops' = [bops EXCEPT ![p] = Append(@, [call |-> "CreateRecord", res |-> res,
                                         arg |-> r, ttl |-> RecordTTL])]

\* A backend call through client / connector s by the current call of p.
Uses(p, s) == users' = [users EXCEPT ![s] = @ \cup {cid[p]}]

StoreOp(p, name, t, r) ==
  sops' = [sops EXCEPT ![p] = Append(@, [call |-> name, token |-> t, ref |-> r])]

Goto(p, l) == pc' = [pc EXCEPT ![p] = l]

Return(p, err) ==
  /\ pc' = [pc EXCEPT ![p] = "done"]
  /\ result' = [result EXCEPT ![p] = err]

\* The state NewDNSProviderConfig(c) leaves: an empty map, an unlocked mutex.
Constructed(c) ==
  /\ backend \in Backends
  /\ config = c
  /\ newErr = NewDNSProviderConfig(backend, c)
  /\ store = [t \in Tokens |-> NoRef]
  /\ mu = Free
  /\ records = {}
  /\ openSessions = {}
  /\ nCalls = 0
  /\ pc = [p \in Procs |-> "idle"]
  /\ op = [p \in Procs |-> "none"]
  /\ tok = [p \in Procs |-> 1]
  /\ cid = [p \in Procs |-> 0]
  /\ sess = [p \in Procs |-> SharedClient]
  /\ ref = [p \in Procs |-> NoRef]
  /\ found = [p \in Procs |-> FALSE]
  /\ result = [p \in Procs |-> "none"]
  /\ timeout = <<>>
  /\ bops = [p \in Procs |-> <<>>]
  /\ sops = [p \in Procs |-> <<>>]
  /\ users = [s \in 0..MaxCalls |-> {}]
  /\ lastWriter = [t \in Tokens |-> 0]
  /\ everPut = {}
  /\ putRefs = [t \in Tokens |-> {}]
  /\ oob = FALSE
  /\ overwrote = FALSE
  /\ overlap = FALSE
  /\ raced = FALSE
  /\ nTok = 0

\* NewDNSProvider with no environment override of the defaults.
Init == Constructed(NewDefaultConfig)

\* NewDNSProviderConfig with any configuration.
InitConfig == \E c \in Configs : Constructed(c)

\* Configurations that differ in the propagation timeout and polling interval.
TimeoutConfigs ==
  {NewDefaultConfig,
   [NewDefaultConfig EXCEPT !.PropagationTimeout = 60, !.PollingInterval = 5]}

\* A cloudflare provider with the default configuration and an infoblox
\* provider with the other one.
InitTimeout ==
  \E c \in TimeoutConfigs :
    /\ Constructed(c)
    /\ (backend = "cloudflare") <=> (c = NewDefaultConfig)

\* Callers and tokens are interchangeable, so they are numbered in the order
\* of their first use: caller p makes its first call after the callers
\* below it have made theirs, and token t is first passed after the tokens
\* below it.  Every behaviour of the provider is one of these up to renaming.
FirstUseOrder(p, t) ==
  /\ \A r \in Procs : r < p => cid[r] # 0
  /\ t <= nTok + 1

\* Entry of a call: there is a provider (the constructor returned no error),
\* the arguments are bound and the locals are fresh.
Enter(p, o, t, first) ==
  /\ newErr = "nil"
  /\ ~InFlight(p)
  /\ nCalls < MaxCalls
  /\ FirstUseOrder(p, t)
  /\ nTok' = IF t > nTok THEN t ELSE nTok
  /\ nCalls' = nCalls + 1
  /\ pc' = [pc EXCEPT ![p] = first]
  /\ op' = [op EXCEPT ![p] = o]
  /\ tok' = [tok EXCEPT ![p] = t]
  /\ cid' = [cid EXCEPT ![p] = nCalls + 1]
  /\ sess' = [sess EXCEPT ![p] = SharedClient]
  /\ ref' = [ref EXCEPT ![p] = NoRef]
  /\ found' = [found EXCEPT ![p] = FALSE]
  /\ result' = [result EXCEPT ![p] = "none"]
  /\ bops' = [bops EXCEPT ![p] = <<>>]
  /\ sops' = [sops EXCEPT ![p] = <<>>]
  /\ overlap' = \E r \in Procs \ {p} : InFlight(r)
  /\ raced' = (raced \/ \E r \in Procs \ {p} : InFlight(r) /\ tok[r] = t)
  /\ timeout' = <<>>
  /\ UNCHANGED <<backend, config, newErr, store, mu, records, openSessions,
                 users, lastWriter, everPut, putRefs, oob, overwrote>>

\* d.recordIDsMu.Lock() / d.recordRefsMu.Lock(): blocks until the mutex is free.
Lock(p, next) ==
  /\ mu = Free
  /\ mu' = p
  /\ Goto(p, next)
  /\ UNCHANGED <<backend, config, newErr, timeout, store, records, openSessions, nCalls,
                 op, tok, cid, sess, ref, found, result, histVars>>

\* Outcomes a backend request can have: the backend answers, or the request
\* fails (transport, authentication, API error) without changing the backend.
Outcomes == {"ok", "fail"}

\* Outcomes of a delete request for reference r.
DeleteOutcomes(r) == (IF r \in records THEN {"ok"} ELSE {"notfound"}) \cup {"fail"}

(***************************************************************************)
(* cloudflare: Present                                                     *)
(***************************************************************************)
Cf_Present(p, t) ==
  /\ backend = "cloudflare"
  /\ Enter(p, "Present", t, "FindZone")

Cf_Present_FindZoneByFqdn(p) ==
  /\ backend = "cloudflare" /\ op[p] = "Present" /\ pc[p] = "FindZone"
  /\ \E res \in Outcomes :
       /\ BackendCall(p, "FindZoneByFqdn", res, NoRef)
       /\ IF res = "ok"
            THEN Goto(p, "ZoneID") /\ UNCHANGED result
            ELSE Return(p, "errFindZone")
  /\ UNCHANGED <<backend, config, newErr, timeout, store, mu, records, openSessions, nCalls,
                 op, tok, cid, sess, ref, found,
                 sops, users, lastWriter, everPut, putRefs, oob, overwrote, overlap, raced, nTok>>

\* Faulty variant of the zone ID lookup: its error is not tested and the
\* create request goes ahead.
Cf_Present_ZoneIDByName_IgnoresErr(p) ==
  /\ backend = "cloudflare" /\ op[p] = "Present" /\ pc[p] = "ZoneID"
  /\ \E res \in Outcomes : BackendCall(p, "ZoneIDByName", res, NoRef)
  /\ Goto(p, "Create")
  /\ Uses(p, sess[p])
  /\ UNCHANGED <<backend, config, newErr, timeout, store, mu, records, openSessions, nCalls,
                 op, tok, cid, sess, ref, found, result,
                 sops, lastWriter, everPut, putRefs, oob, overwrote, overlap, raced, nTok>>

Cf_Present_ZoneIDByName(p) ==
  /\ backend = "cloudflare" /\ op[p] = "Present" /\ pc[p] = "ZoneID"
  /\ \E res \in Outcomes :
       /\ BackendCall(p, "ZoneIDByName", res, NoRef)
       /\ IF res = "ok"
            THEN Goto(p, "Create") /\ UNCHANGED result
            ELSE Return(p, "errZoneID")
  /\ Uses(p, sess[p])
  /\ UNCHANGED <<backend, config, newErr, timeout, store, mu, records, openSessions, nCalls,
                 op, tok, cid, sess, ref, found,
                 sops, lastWriter, everPut, putRefs, oob, overwrote, overlap, raced, nTok>>

\* Faulty variant of the create step: a failed request is sent again.
Cf_Present_CreateDNSRecord_Retries(p) ==
  /\ backend = "cloudflare" /\ op[p] = "Present" /\ pc[p] = "Create"
  /\ \E res \in Outcomes :
       IF res = "ok"
         THEN /\ CreateCall(p, res, cid[p])
              /\ records' = records \cup {cid[p]}
              /\ ref' = [ref EXCEPT ![p] = cid[p]]
              /\ Goto(p, "LockPut") /\ UNCHANGED result
         ELSE /\ CreateCall(p, res, NoRef)
              /\ IF Len(bops[p]) < 4
                   THEN UNCHANGED <<pc, result>>
                   ELSE Return(p, "errCreate")
              /\ UNCHANGED <<records, ref>>
  /\ Uses(p, sess[p])
  /\ UNCHANGED <<backend, config, newErr, timeout, store, mu, openSessions, nCalls,
                 op, tok, cid, sess, found,
                 sops, lastWriter, everPut, putRefs, oob, overwrote, overlap, raced, nTok>>

Cf_Present_CreateDNSRecord(p) ==
  /\ backend = "cloudflare" /\ op[p] = "Present" /\ pc[p] = "Create"
  /\ \E res \in Outcomes :
       IF res = "ok"
         THEN /\ CreateCall(p, res, cid[p])
              /\ records' = records \cup {cid[p]}
              /\ ref' = [ref EXCEPT ![p] = cid[p]]
              /\ Goto(p, "LockPut") /\ UNCHANGED result
         ELSE /\ CreateCall(p, res, NoRef)
              /\ Return(p, "errCreate")
              /\ UNCHANGED <<records, ref>>
  /\ Uses(p, sess[p])
  /\ UNCHANGED <<backend, config, newErr, timeout, store, mu, openSessions, nCalls,
                 op, tok, cid, sess, found,
                 sops, lastWriter, everPut, putRefs, oob, overwrote, overlap, raced, nTok>>

Cf_Present_Lock(p) ==
  /\ backend = "cloudflare" /\ op[p] = "Present" /\ pc[p] = "LockPut"
  /\ Lock(p, "Put")

\* Faulty variant of the store step: the map is replaced by a map holding only
\* this call's entry.
Cf_Present_Put_ReplacesMap(p) ==
  /\ backend = "cloudflare" /\ op[p] = "Present" /\ pc[p] = "Put"
  /\ store' = [t \in Tokens |-> IF t = tok[p] THEN ref[p] ELSE NoRef]
  /\ mu' = Free
  /\ Return(p, "nil")
  /\ StoreOp(p, "Put", tok[p], ref[p])
  /\ lastWriter' = [lastWriter EXCEPT ![tok[p]] = cid[p]]
  /\ everPut' = everPut \cup {tok[p]}
  /\ putRefs' = [putRefs EXCEPT ![tok[p]] = @ \cup {ref[p]}]
  /\ overwrote' = (overwrote \/ store[tok[p]] # NoRef)
  /\ UNCHANGED <<backend, config, newErr, timeout, records, openSessions, nCalls,
                 op, tok, cid, sess, ref, found, bops, users, oob, overlap, raced, nTok>>

\* d.recordIDs[token] = response.ID; Unlock; log; return nil
Cf_Present_Put(p) ==
  /\ backend = "cloudflare" /\ op[p] = "Present" /\ pc[p] = "Put"
  /\ store' = [store EXCEPT ![tok[p]] = ref[p]]
  /\ mu' = Free
  /\ Return(p, "nil")
  /\ StoreOp(p, "Put", tok[p], ref[p])
  /\ lastWriter' = [lastWriter EXCEPT ![tok[p]] = cid[p]]
  /\ everPut' = everPut \cup {tok[p]}
  /\ putRefs' = [putRefs EXCEPT ![tok[p]] = @ \cup {ref[p]}]
  /\ overwrote' = (overwrote \/ store[tok[p]] # NoRef)
  /\ UNCHANGED <<backend, config, newErr, timeout, records, openSessions, nCalls,
                 op, tok, cid, sess, ref, found, bops, users, oob, overlap, raced, nTok>>

(***************************************************************************)
(* cloudflare: CleanUp                                                     *)
(***************************************************************************)
Cf_CleanUp(p, t) ==
  /\ backend = "cloudflare"
  /\ Enter(p, "CleanUp", t, "FindZone")

Cf_CleanUp_FindZoneByFqdn(p) ==
  /\ backend = "cloudflare" /\ op[p] = "CleanUp" /\ pc[p] = "FindZone"
  /\ \E res \in Outcomes :
       /\ BackendCall(p, "FindZoneByFqdn", res, NoRef)
       /\ IF res = "ok"
            THEN Goto(p, "ZoneID") /\ UNCHANGED result
            ELSE Return(p, "errFindZone")
  /\ UNCHANGED <<backend, config, newErr, timeout, store, mu, records, openSessions, nCalls,
                 op, tok, cid, sess, ref, found,
                 sops, users, lastWriter, everPut, putRefs, oob, overwrote, overlap, raced, nTok>>

Cf_CleanUp_ZoneIDByName(p) ==
  /\ backend = "cloudflare" /\ op[p] = "CleanUp" /\ pc[p] = "ZoneID"
  /\ \E res \in Outcomes :
       /\ BackendCall(p, "ZoneIDByName", res, NoRef)
       /\ IF res = "ok"
            THEN Goto(p, "LockGet") /\ UNCHANGED result
            ELSE Return(p, "errZoneID")
  /\ Uses(p, sess[p])
  /\ UNCHANGED <<backend, config, newErr, timeout, store, mu, records, openSessions, nCalls,
                 op, tok, cid, sess, ref, found,
                 sops, lastWriter, everPut, putRefs, oob, overwrote, overlap, raced, nTok>>

\* Faulty variant: the lookup is reached without taking the mutex.
Cf_CleanUp_LockGet_NoMutex(p) ==
  /\ backend = "cloudflare" /\ op[p] = "CleanUp" /\ pc[p] = "LockGet"
  /\ Goto(p, "Get")
  /\ UNCHANGED <<backend, config, newErr, timeout, store, mu, records, openSessions,
                 nCalls, op, tok, cid, sess, ref, found, result, histVars>>

Cf_CleanUp_LockGet(p) ==
  /\ backend = "cloudflare" /\ op[p] = "CleanUp" /\ pc[p] = "LockGet"
  /\ Lock(p, "Get")

\* Faulty variant of the lookup: `ok` is not tested and the delete goes ahead.
Cf_CleanUp_Get_IgnoresOk(p) ==
  /\ backend = "cloudflare" /\ op[p] = "CleanUp" /\ pc[p] = "Get"
  /\ ref' = [ref EXCEPT ![p] = store[tok[p]]]
  /\ found' = [found EXCEPT ![p] = (store[tok[p]] # NoRef)]
  /\ mu' = Free
  /\ StoreOp(p, "Get", tok[p], store[tok[p]])
  /\ Goto(p, "Delete")
  /\ UNCHANGED <<backend, config, newErr, timeout, store, records, openSessions, nCalls,
                 op, tok, cid, sess, result,
                 bops, users, lastWriter, everPut, putRefs, oob, overwrote, overlap, raced, nTok>>

\* recordID, ok := d.recordIDs[token]; Unlock; if !ok { return error }
Cf_CleanUp_Get(p) ==
  /\ backend = "cloudflare" /\ op[p] = "CleanUp" /\ pc[p] = "Get"
  /\ ref' = [ref EXCEPT ![p] = store[tok[p]]]
  /\ found' = [found EXCEPT ![p] = (store[tok[p]] # NoRef)]
  /\ mu' = Free
  /\ StoreOp(p, "Get", tok[p], store[tok[p]])
  /\ IF store[tok[p]] # NoRef
       THEN Goto(p, "Delete") /\ UNCHANGED result
       ELSE Return(p, "errUnknown")
  /\ UNCHANGED <<backend, config, newErr, timeout, store, records, openSessions, nCalls,
                 op, tok, cid, sess,
                 bops, users, lastWriter, everPut, putRefs, oob, overwrote, overlap, raced, nTok>>

\* Faulty variant of the delete step: the record is picked among the existing
\* records (as a search by name and value would) instead of by the reference
\* that was looked up.
Cf_CleanUp_DeleteDNSRecord_ByName(p) ==
  /\ backend = "cloudflare" /\ op[p] = "CleanUp" /\ pc[p] = "Delete"
  /\ \E r \in records \cup {ref[p]} : \E res \in DeleteOutcomes(r) :
       /\ BackendCall(p, "DeleteRecord", res, r)
       /\ records' = IF res = "ok" THEN records \ {r} ELSE records
  /\ Uses(p, sess[p])
  /\ Goto(p, "LockRemove")
  /\ UNCHANGED <<backend, config, newErr, timeout, store, mu, openSessions, nCalls,
                 op, tok, cid, sess, ref, found, result,
                 sops, lastWriter, everPut, putRefs, oob, overwrote, overlap, raced, nTok>>

\* err = d.client.DeleteDNSRecord(...); if err != nil { log.Printf(...) }
Cf_CleanUp_DeleteDNSRecord(p) ==
  /\ backend = "cloudflare" /\ op[p] = "CleanUp" /\ pc[p] = "Delete"
  /\ \E res \in DeleteOutcomes(ref[p]) :
       /\ BackendCall(p, "DeleteRecord", res, ref[p])
       /\ records' = IF res = "ok" THEN records \ {ref[p]} ELSE records
  /\ Uses(p, sess[p])
  /\ Goto(p, "LockRemove")
  /\ UNCHANGED <<backend, config, newErr, timeout, store, mu, openSessions, nCalls,
                 op, tok, cid, sess, ref, found, result,
                 sops, lastWriter, everPut, putRefs, oob, overwrote, overlap, raced, nTok>>

Cf_CleanUp_LockRemove(p) ==
  /\ backend = "cloudflare" /\ op[p] = "CleanUp" /\ pc[p] = "LockRemove"
  /\ Lock(p, "Remove")

\* delete(d.recordIDs, token); Unlock; return nil
\* Faulty variant: CleanUp returns without removing the entry.
Cf_CleanUp_Remove_KeepsEntry(p) ==
  /\ backend = "cloudflare" /\ op[p] = "CleanUp" /\ pc[p] = "Remove"
  /\ mu' = Free
  /\ Return(p, "nil")
  /\ UNCHANGED <<backend, config, newErr, timeout, store, records, openSessions,
                 nCalls, op, tok, cid, sess, ref, found, histVars>>

Cf_CleanUp_Remove(p) ==
  /\ backend = "cloudflare" /\ op[p] = "CleanUp" /\ pc[p] = "Remove"
  /\ store' = [store EXCEPT ![tok[p]] = NoRef]
  /\ mu' = Free
  /\ Return(p, "nil")
  /\ StoreOp(p, "Remove", tok[p], store[tok[p]])
  /\ lastWriter' = [lastWriter EXCEPT ![tok[p]] = cid[p]]
  /\ UNCHANGED <<backend, config, newErr, timeout, records, openSessions, nCalls,
                 op, tok, cid, sess, ref, found,
                 bops, users, everPut, putRefs, oob, overwrote, overlap, raced, nTok>>


(***************************************************************************)
(* infoblox: Present                                                       *)
(***************************************************************************)
Ib_Present(p, t) ==
  /\ backend = "infoblox"
  /\ Enter(p, "Present", t, "Connect")

\* connector, err := infoblox.NewConnector(...): a new connector per call.
Ib_Present_NewConnector(p) ==
  /\ backend = "infoblox" /\ op[p] = "Present" /\ pc[p] = "Connect"
  /\ \E res \in Outcomes :
       IF res = "ok"
         THEN /\ BackendCall(p, "Open", res, cid[p])
              /\ sess' = [sess EXCEPT ![p] = cid[p]]
              /\ openSessions' = openSessions \cup {cid[p]}
              /\ Goto(p, "Create") /\ UNCHANGED result
         ELSE /\ BackendCall(p, "Open", res, NoRef)
              /\ Return(p, "errConnect")
              /\ UNCHANGED <<sess, openSessions>>
  /\ UNCHANGED <<backend, config, newErr, timeout, store, mu, records, nCalls,
                 op, tok, cid, ref, found,
                 sops, users, lastWriter, everPut, putRefs, oob, overwrote, overlap, raced, nTok>>

\* Faulty variant of the create step: the error is not tested and the (empty)
\* reference is stored.
Ib_Present_CreateTXTRecord_IgnoresErr(p) ==
  /\ backend = "infoblox" /\ op[p] = "Present" /\ pc[p] = "Create"
  /\ \E res \in Outcomes :
       IF res = "ok"
         THEN /\ CreateCall(p, res, cid[p])
              /\ records' = records \cup {cid[p]}
              /\ ref' = [ref EXCEPT ![p] = cid[p]]
         ELSE /\ CreateCall(p, res, NoRef)
              /\ UNCHANGED <<records, ref>>
  /\ Goto(p, "LockPut")
  /\ Uses(p, sess[p])
  /\ UNCHANGED <<backend, config, newErr, timeout, store, mu, openSessions, nCalls,
                 op, tok, cid, sess, found, result,
                 sops, lastWriter, everPut, putRefs, oob, overwrote, overlap, raced, nTok>>

\* record, err := objectManager.CreateTXTRecord(...); on error return through
\* the deferred Logout.
Ib_Present_CreateTXTRecord(p) ==
  /\ backend = "infoblox" /\ op[p] = "Present" /\ pc[p] = "Create"
  /\ \E res \in Outcomes :
       IF res = "ok"
         THEN /\ CreateCall(p, res, cid[p])
              /\ records' = records \cup {cid[p]}
              /\ ref' = [ref EXCEPT ![p] = cid[p]]
              /\ Goto(p, "LockPut") /\ UNCHANGED result
         ELSE /\ CreateCall(p, res, NoRef)
              /\ result' = [result EXCEPT ![p] = "errCreate"]
              /\ Goto(p, "Logout")
              /\ UNCHANGED <<records, ref>>
  /\ Uses(p, sess[p])
  /\ UNCHANGED <<backend, config, newErr, timeout, store, mu, openSessions, nCalls,
                 op, tok, cid, sess, found,
                 sops, lastWriter, everPut, putRefs, oob, overwrote, overlap, raced, nTok>>

Ib_Present_Lock(p) ==
  /\ backend = "infoblox" /\ op[p] = "Present" /\ pc[p] = "LockPut"
  /\ Lock(p, "Put")

\* d.recordRefs[token] = record.Ref; Unlock; return nil (deferred Logout next)
\* Faulty variant: the mutex is not released after the write, so the logout
\* request is made, and the call returns, with the mutex held.
Ib_Present_Put_KeepsLock(p) ==
  /\ backend = "infoblox" /\ op[p] = "Present" /\ pc[p] = "Put"
  /\ store' = [store EXCEPT ![tok[p]] = ref[p]]
  /\ result' = [result EXCEPT ![p] = "nil"]
  /\ Goto(p, "Logout")
  /\ StoreOp(p, "Put", tok[p], ref[p])
  /\ lastWriter' = [lastWriter EXCEPT ![tok[p]] = cid[p]]
  /\ everPut' = everPut \cup {tok[p]}
  /\ putRefs' = [putRefs EXCEPT ![tok[p]] = @ \cup {ref[p]}]
  /\ overwrote' = (overwrote \/ store[tok[p]] # NoRef)
  /\ UNCHANGED <<backend, config, newErr, timeout, mu, records, openSessions,
                 nCalls, op, tok, cid, sess, ref, found, bops, users, oob,
                 overlap, raced, nTok>>

Ib_Present_Put(p) ==
  /\ backend = "infoblox" /\ op[p] = "Present" /\ pc[p] = "Put"
  /\ store' = [store EXCEPT ![tok[p]] = ref[p]]
  /\ mu' = Free
  /\ result' = [result EXCEPT ![p] = "nil"]
  /\ Goto(p, "Logout")
  /\ StoreOp(p, "Put", tok[p], ref[p])
  /\ lastWriter' = [lastWriter EXCEPT ![tok[p]] = cid[p]]
  /\ everPut' = everPut \cup {tok[p]}
  /\ putRefs' = [putRefs EXCEPT ![tok[p]] = @ \cup {ref[p]}]
  /\ overwrote' = (overwrote \/ store[tok[p]] # NoRef)
  /\ UNCHANGED <<backend, config, newErr, timeout, records, openSessions, nCalls,
                 op, tok, cid, sess, ref, found, bops, users, oob, overlap, raced, nTok>>

\* defer func() { _ = connector.Logout() }(): runs on every return after the
\* connector was created; its error is discarded.
Logout(p) ==
  /\ pc[p] = "Logout"
  /\ BackendCall(p, "Logout", "discarded", sess[p])
  /\ Uses(p, sess[p])
  /\ openSessions' = openSessions \ {sess[p]}
  /\ pc' = [pc EXCEPT ![p] = "done"]
  /\ UNCHANGED <<backend, config, newErr, timeout, store, mu, records, nCalls,
                 op, tok, cid, sess, ref, found, result,
                 sops, lastWriter, everPut, putRefs, oob, overwrote, overlap, raced, nTok>>

Ib_Present_Logout(p) ==
  /\ backend = "infoblox" /\ op[p] = "Present"
  /\ Logout(p)

(***************************************************************************)
(* infoblox: CleanUp                                                       *)
(***************************************************************************)
Ib_CleanUp(p, t) ==
  /\ backend = "infoblox"
  /\ Enter(p, "CleanUp", t, "Connect")

\* Faulty variant of the connector creation: CleanUp takes the connector of
\* the first call instead of creating its own.
Ib_CleanUp_NewConnector_Reused(p) ==
  /\ backend = "infoblox" /\ op[p] = "CleanUp" /\ pc[p] = "Connect"
  /\ \E res \in Outcomes :
       IF res = "ok"
         THEN /\ BackendCall(p, "Open", res, 1)
              /\ sess' = [sess EXCEPT ![p] = 1]
              /\ openSessions' = openSessions \cup {1}
              /\ Goto(p, "LockGet") /\ UNCHANGED result
         ELSE /\ BackendCall(p, "Open", res, NoRef)
              /\ Return(p, "errConnect")
              /\ UNCHANGED <<sess, openSessions>>
  /\ UNCHANGED <<backend, config, newErr, timeout, store, mu, records, nCalls,
                 op, tok, cid, ref, found,
                 sops, users, lastWriter, everPut, putRefs, oob, overwrote, overlap, raced, nTok>>

Ib_CleanUp_NewConnector(p) ==
  /\ backend = "infoblox" /\ op[p] = "CleanUp" /\ pc[p] = "Connect"
  /\ \E res \in Outcomes :
       IF res = "ok"
         THEN /\ BackendCall(p, "Open", res, cid[p])
              /\ sess' = [sess EXCEPT ![p] = cid[p]]
              /\ openSessions' = openSessions \cup {cid[p]}
              /\ Goto(p, "LockGet") /\ UNCHANGED result
         ELSE /\ BackendCall(p, "Open", res, NoRef)
              /\ Return(p, "errConnect")
              /\ UNCHANGED <<sess, openSessions>>
  /\ UNCHANGED <<backend, config, newErr, timeout, store, mu, records, nCalls,
                 op, tok, cid, ref, found,
                 sops, users, lastWriter, everPut, putRefs, oob, overwrote, overlap, raced, nTok>>

Ib_CleanUp_LockGet(p) ==
  /\ backend = "infoblox" /\ op[p] = "CleanUp" /\ pc[p] = "LockGet"
  /\ Lock(p, "Get")

\* Faulty variant of the lookup: the unknown-token return does not run the
\* Logout (the connector is not released on that path).
Ib_CleanUp_Get_NoLogout(p) ==
  /\ backend = "infoblox" /\ op[p] = "CleanUp" /\ pc[p] = "Get"
  /\ ref' = [ref EXCEPT ![p] = store[tok[p]]]
  /\ found' = [found EXCEPT ![p] = (store[tok[p]] # NoRef)]
  /\ mu' = Free
  /\ StoreOp(p, "Get", tok[p], store[tok[p]])
  /\ IF store[tok[p]] # NoRef
       THEN Goto(p, "Delete") /\ UNCHANGED result
       ELSE Return(p, "errUnknown")
  /\ UNCHANGED <<backend, config, newErr, timeout, store, records, openSessions, nCalls,
                 op, tok, cid, sess,
                 bops, users, lastWriter, everPut, putRefs, oob, overwrote, overlap, raced, nTok>>

\* recordRef, ok := d.recordRefs[token]; Unlock; if !ok { return error }
Ib_CleanUp_Get(p) ==
  /\ backend = "infoblox" /\ op[p] = "CleanUp" /\ pc[p] = "Get"
  /\ ref' = [ref EXCEPT ![p] = store[tok[p]]]
  /\ found' = [found EXCEPT ![p] = (store[tok[p]] # NoRef)]
  /\ mu' = Free
  /\ StoreOp(p, "Get", tok[p], store[tok[p]])
  /\ IF store[tok[p]] # NoRef
       THEN Goto(p, "Delete") /\ UNCHANGED result
       ELSE Goto(p, "Logout") /\ result' = [result EXCEPT ![p] = "errUnknown"]
  /\ UNCHANGED <<backend, config, newErr, timeout, store, records, openSessions, nCalls,
                 op, tok, cid, sess,
                 bops, users, lastWriter, everPut, putRefs, oob, overwrote, overlap, raced, nTok>>

\* _, err = objectManager.DeleteTXTRecord(recordRef); if err != nil { return error }
\* Faulty variant: the entry is removed before the error of the delete
\* request is looked at.
Ib_CleanUp_DeleteTXTRecord_RemovesOnError(p) ==
  /\ backend = "infoblox" /\ op[p] = "CleanUp" /\ pc[p] = "Delete"
  /\ \E res \in DeleteOutcomes(ref[p]) :
       /\ BackendCall(p, "DeleteRecord", res, ref[p])
       /\ IF res = "ok"
            THEN /\ records' = records \ {ref[p]}
                 /\ Goto(p, "LockRemove")
                 /\ UNCHANGED <<result, store, sops, lastWriter>>
            ELSE /\ result' = [result EXCEPT ![p] = "errDelete"]
                 /\ Goto(p, "Logout")
                 /\ store' = [store EXCEPT ![tok[p]] = NoRef]
                 /\ StoreOp(p, "Remove", tok[p], store[tok[p]])
                 /\ lastWriter' = [lastWriter EXCEPT ![tok[p]] = cid[p]]
                 /\ UNCHANGED records
  /\ Uses(p, sess[p])
  /\ UNCHANGED <<backend, config, newErr, timeout, mu, openSessions, nCalls,
                 op, tok, cid, sess, ref, found,
                 everPut, putRefs, oob, overwrote, overlap, raced, nTok>>

Ib_CleanUp_DeleteTXTRecord(p) ==
  /\ backend = "infoblox" /\ op[p] = "CleanUp" /\ pc[p] = "Delete"
  /\ \E res \in DeleteOutcomes(ref[p]) :
       /\ BackendCall(p, "DeleteRecord", res, ref[p])
       /\ IF res = "ok"
            THEN /\ records' = records \ {ref[p]}
                 /\ Goto(p, "LockRemove") /\ UNCHANGED result
            ELSE /\ result' = [result EXCEPT ![p] = "errDelete"]
                 /\ Goto(p, "Logout")
                 /\ UNCHANGED records
  /\ Uses(p, sess[p])
  /\ UNCHANGED <<backend, config, newErr, timeout, store, mu, openSessions, nCalls,
                 op, tok, cid, sess, ref, found,
                 sops, lastWriter, everPut, putRefs, oob, overwrote, overlap, raced, nTok>>

Ib_CleanUp_LockRemove(p) ==
  /\ backend = "infoblox" /\ op[p] = "CleanUp" /\ pc[p] = "LockRemove"
  /\ Lock(p, "Remove")

\* delete(d.recordRefs, token); Unlock; return nil (deferred Logout next)
Ib_CleanUp_Remove(p) ==
  /\ backend = "infoblox" /\ op[p] = "CleanUp" /\ pc[p] = "Remove"
  /\ store' = [store EXCEPT ![tok[p]] = NoRef]
  /\ mu' = Free
  /\ result' = [result EXCEPT ![p] = "nil"]
  /\ Goto(p, "Logout")
  /\ StoreOp(p, "Remove", tok[p], store[tok[p]])
  /\ lastWriter' = [lastWriter EXCEPT ![tok[p]] = cid[p]]
  /\ UNCHANGED <<backend, config, newErr, timeout, records, openSessions, nCalls,
                 op, tok, cid, sess, ref, found,
                 bops, users, everPut, putRefs, oob, overwrote, overlap, raced, nTok>>

Ib_CleanUp_Logout(p) ==
  /\ backend = "infoblox" /\ op[p] = "CleanUp"
  /\ Logout(p)

(***************************************************************************)
(* Environment: some other actor deletes a record at the backend.          *)
(***************************************************************************)
OutOfBandDelete(r) ==
  /\ r \in records
  /\ records' = records \ {r}
  /\ oob' = TRUE
  /\ UNCHANGED <<backend, config, newErr, timeout, store, mu, openSessions, nCalls,
                 pc, op, tok, cid, sess, ref, found, result,
                 bops, sops, users, lastWriter, everPut, putRefs, overwrote, overlap, raced, nTok>>

\* Faulty variant: the two results are returned in the wrong order.
Timeout_Swapped(p) ==
  /\ newErr = "nil"
  /\ ~InFlight(p)
  /\ nCalls < MaxCalls
  /\ \A r \in Procs : r < p => cid[r] # 0
  /\ nCalls' = nCalls + 1
  /\ timeout' = <<config.PollingInterval, config.PropagationTimeout>>
  /\ pc' = [pc EXCEPT ![p] = "done"]
  /\ op' = [op EXCEPT ![p] = "Timeout"]
  /\ cid' = [cid EXCEPT ![p] = nCalls + 1]
  /\ sess' = [sess EXCEPT ![p] = SharedClient]
  /\ ref' = [ref EXCEPT ![p] = NoRef]
  /\ found' = [found EXCEPT ![p] = FALSE]
  /\ result' = [result EXCEPT ![p] = "none"]
  /\ bops' = [bops EXCEPT ![p] = <<>>]
  /\ sops' = [sops EXCEPT ![p] = <<>>]
  /\ overlap' = \E r \in Procs \ {p} : InFlight(r)
  /\ UNCHANGED <<backend, config, newErr, store, mu, records, openSessions, tok,
                 users, lastWriter, everPut, putRefs, oob, overwrote, raced, nTok>>

\* Timeout(): return d.config.PropagationTimeout, d.config.PollingInterval.
\* One step, the same in both providers; it takes no lock, so a caller can
\* make it while another caller is anywhere in Present or CleanUp.
Timeout(p) ==
  /\ newErr = "nil"
  /\ ~InFlight(p)
  /\ nCalls < MaxCalls
  /\ \A r \in Procs : r < p => cid[r] # 0
  /\ nCalls' = nCalls + 1
  /\ timeout' = <<config.PropagationTimeout, config.PollingInterval>>
  /\ pc' = [pc EXCEPT ![p] = "done"]
  /\ op' = [op EXCEPT ![p] = "Timeout"]
  /\ cid' = [cid EXCEPT ![p] = nCalls + 1]
  /\ sess' = [sess EXCEPT ![p] = SharedClient]
  /\ ref' = [ref EXCEPT ![p] = NoRef]
  /\ found' = [found EXCEPT ![p] = FALSE]
  /\ result' = [result EXCEPT ![p] = "none"]
  /\ bops' = [bops EXCEPT ![p] = <<>>]
  /\ sops' = [sops EXCEPT ![p] = <<>>]
  /\ overlap' = \E r \in Procs \ {p} : InFlight(r)
  /\ UNCHANGED <<backend, config, newErr, store, mu, records, openSessions, tok,
                 users, lastWriter, everPut, putRefs, oob, overwrote, raced, nTok>>

Next ==
  \/ \E p \in Procs, t \in Tokens : Cf_Present(p, t)
  \/ \E p \in Procs : Cf_Present_FindZoneByFqdn(p)
  \/ \E p \in Procs : Cf_Present_ZoneIDByName(p)
  \/ \E p \in Procs : Cf_Present_CreateDNSRecord(p)
  \/ \E p \in Procs : Cf_Present_Lock(p)
  \/ \E p \in Procs : Cf_Present_Put(p)
  \/ \E p \in Procs, t \in Tokens : Cf_CleanUp(p, t)
  \/ \E p \in Procs : Cf_CleanUp_FindZoneByFqdn(p)
  \/ \E p \in Procs : Cf_CleanUp_ZoneIDByName(p)
  \/ \E p \in Procs : Cf_CleanUp_LockGet(p)
  \/ \E p \in Procs : Cf_CleanUp_Get(p)
  \/ \E p \in Procs : Cf_CleanUp_DeleteDNSRecord(p)
  \/ \E p \in Procs : Cf_CleanUp_LockRemove(p)
  \/ \E p \in Procs : Cf_CleanUp_Remove(p)
  \/ \E p \in Procs, t \in Tokens : Ib_Present(p, t)
  \/ \E p \in Procs : Ib_Present_NewConnector(p)
  \/ \E p \in Procs : Ib_Present_CreateTXTRecord(p)
  \/ \E p \in Procs : Ib_Present_Lock(p)
  \/ \E p \in Procs : Ib_Present_Put(p)
  \/ \E p \in Procs : Ib_Present_Logout(p)
  \/ \E p \in Procs, t \in Tokens : Ib_CleanUp(p, t)
  \/ \E p \in Procs : Ib_CleanUp_NewConnector(p)
  \/ \E p \in Procs : Ib_CleanUp_LockGet(p)
  \/ \E p \in Procs : Ib_CleanUp_Get(p)
  \/ \E p \in Procs : Ib_CleanUp_DeleteTXTRecord(p)
  \/ \E p \in Procs : Ib_CleanUp_LockRemove(p)
  \/ \E p \in Procs : Ib_CleanUp_Remove(p)
  \/ \E p \in Procs : Ib_CleanUp_Logout(p)
  \/ \E r \in CallIds : OutOfBandDelete(r)

Spec == Init /\ [][Next]_vars

SpecConfig == InitConfig /\ [][Next]_vars

\* The steps of caller p after the entry of its call.  A goroutine that can
\* run is eventually run, and a backend request returns: each caller's next
\* step is taken if it stays possible.
Step(p) ==
  \/ Cf_Present_FindZoneByFqdn(p)
  \/ Cf_Present_ZoneIDByName(p)
  \/ Cf_Present_CreateDNSRecord(p)
  \/ Cf_Present_Lock(p)
  \/ Cf_Present_Put(p)
  \/ Cf_CleanUp_FindZoneByFqdn(p)
  \/ Cf_CleanUp_ZoneIDByName(p)
  \/ Cf_CleanUp_LockGet(p)
  \/ Cf_CleanUp_Get(p)
  \/ Cf_CleanUp_DeleteDNSRecord(p)
  \/ Cf_CleanUp_LockRemove(p)
  \/ Cf_CleanUp_Remove(p)
  \/ Ib_Present_NewConnector(p)
  \/ Ib_Present_CreateTXTRecord(p)
  \/ Ib_Present_Lock(p)
  \/ Ib_Present_Put(p)
  \/ Ib_Present_Logout(p)
  \/ Ib_CleanUp_NewConnector(p)
  \/ Ib_CleanUp_LockGet(p)
  \/ Ib_CleanUp_Get(p)
  \/ Ib_CleanUp_DeleteTXTRecord(p)
  \/ Ib_CleanUp_LockRemove(p)
  \/ Ib_CleanUp_Remove(p)
  \/ Ib_CleanUp_Logout(p)

SpecFair == Spec /\ \A p \in Procs : WF_vars(Step(p))

\* Present and CleanUp together with Timeout, which changes nothing of the
\* provider and is therefore a stuttering step of Spec.
NextTimeout ==
  \/ Next
  \/ \E p \in Procs : Timeout(p)

SpecTimeout == InitTimeout /\ [][NextTimeout]_vars

TypeOK ==
  /\ backend \in Backends
  /\ store \in [Tokens -> {NoRef} \cup CallIds]
  /\ mu \in {Free} \cup Procs
  /\ records \subseteq CallIds
  /\ openSessions \subseteq CallIds
  /\ nCalls \in 0..MaxCalls
  /\ \A p \in Procs : cid[p] <= nCalls /\ ref[p] \in {NoRef} \cup CallIds
  /\ op \in [Procs -> {"none", "Present", "CleanUp", "Timeout"}]
  /\ timeout \in {<<>>} \cup {<<c.PropagationTimeout, c.PollingInterval>> : c \in TimeoutConfigs}
  /\ raced \in BOOLEAN
  /\ nTok \in 0..Cardinality(Tokens)

(***************************************************************************)
(* Observations used by the properties.                                    *)
(***************************************************************************)
Done(p) == pc[p] = "done"

Quiescent == \A p \in Procs : ~InFlight(p)

\* The outcomes of the backend calls named `name` made by p's current call.
ResultsOf(p, name) ==
  {bops[p][i].res : i \in {j \in 1..Len(bops[p]) : bops[p][j].call = name}}

\* The backend calls whose failure must reach the caller.
PerCallRequests ==
  {"FindZoneByFqdn", "ZoneIDByName", "Open", "CreateRecord", "DeleteRecord"}

SomeRequestFailed(p) ==
  \E name \in PerCallRequests : "fail" \in ResultsOf(p, name)

\* The map operations named `name` made by p's current call.
StoreOpsOf(p, name) ==
  {i \in 1..Len(sops[p]) : sops[p][i].call = name}

WroteStore(p) == StoreOpsOf(p, "Put") \cup StoreOpsOf(p, "Remove") # {}

\* No later call for p's token has written the map since p's call did.
LastWriter(p) == lastWriter[tok[p]] = cid[p]

StoredRefs == {store[t] : t \in Tokens} \ {NoRef}

(***************************************************************************)
(* C1. Round trip: after a successful Present, a CleanUp with the same     *)
(* arguments (taken here in the reading most favourable to the code: a     *)
(* CleanUp that returned nil) leaves no map entry for the token and the    *)
(* record whose reference it read no longer exists at the backend.         *)
(***************************************************************************)
C1_RoundTrip ==
  \A p \in Procs :
    (Done(p) /\ op[p] = "CleanUp" /\ result[p] = "nil") =>
      /\ LastWriter(p) => store[tok[p]] = NoRef
      /\ ref[p] \notin records

C3_AlreadyDeletedCleanUp ==
  \A p \in Procs :
    (Done(p) /\ op[p] = "CleanUp" /\ oob
       /\ "notfound" \in ResultsOf(p, "DeleteRecord")) =>
      /\ result[p] = "nil"
      /\ StoreOpsOf(p, "Remove") # {}

(***************************************************************************)
(* C4. Per-call errors are never swallowed: a call one of whose zone,      *)
(* session-open, create or delete requests failed (other than "not found"  *)
(* at delete time) does not return success.                                *)
(***************************************************************************)
C4_ErrorsNotSwallowed ==
  \A p \in Procs :
    (Done(p) /\ SomeRequestFailed(p)) => result[p] # "nil"

(***************************************************************************)
(* C5. The map entry is removed only after a verified successful           *)
(* deletion: a CleanUp that has removed the entry has had its delete       *)
(* request answered with success.                                          *)
(***************************************************************************)
C5_RemoveOnlyAfterDelete ==
  \A p \in Procs :
    StoreOpsOf(p, "Remove") # {} => ResultsOf(p, "DeleteRecord") = {"ok"}

(***************************************************************************)
(* C6. Store/backend invariant: with no call in progress (and, in the      *)
(* reading most favourable to the code, no out-of-band deletion and no     *)
(* token stored twice), the references in the map are exactly the          *)
(* references of the records the provider created and that still exist.    *)
(***************************************************************************)
C6_StoreBackendInvariant ==
  (Quiescent /\ ~oob /\ ~overwrote) => StoredRefs = records

(***************************************************************************)
(* C7. When the create request of a Present fails, Present returns an      *)
(* error and has made no map operation; when Present succeeds, its one     *)
(* map operation put the reference the backend returned under its token.   *)
(***************************************************************************)
C7_CreateOutcome ==
  \A p \in Procs :
    /\ (op[p] = "Present" /\ "fail" \in ResultsOf(p, "CreateRecord")) =>
         /\ sops[p] = <<>>
         /\ pc[p] \in {"Logout", "done"}
         /\ result[p] = "errCreate"
    /\ (op[p] = "Present" /\ Done(p) /\ result[p] = "nil") =>
         /\ ResultsOf(p, "CreateRecord") = {"ok"}
         /\ ref[p] = cid[p]
         /\ sops[p] = <<[call |-> "Put", token |-> tok[p], ref |-> ref[p]]>>
         /\ LastWriter(p) => store[tok[p]] = ref[p]

C7_Witness ==
  \E p, q \in Procs :
    /\ op[p] = "Present" /\ Done(p) /\ "fail" \in ResultsOf(p, "CreateRecord")
    /\ op[q] = "Present" /\ Done(q) /\ result[q] = "nil"
    /\ store[tok[q]] = ref[q]

(***************************************************************************)
(* C8. Concurrent isolation: two Present calls for distinct tokens whose   *)
(* backend requests all succeed both return nil, get distinct references,  *)
(* and the map holds each call's own reference under its own token.        *)
(***************************************************************************)
C8_ConcurrentIsolation ==
  \A p, q \in Procs :
    (/\ p # q /\ tok[p] # tok[q]
     /\ op[p] = "Present" /\ Done(p) /\ ~SomeRequestFailed(p)
     /\ op[q] = "Present" /\ Done(q) /\ ~SomeRequestFailed(q)) =>
      /\ result[p] = "nil" /\ result[q] = "nil"
      /\ ref[p] # ref[q]
      /\ LastWriter(p) => store[tok[p]] = ref[p]
      /\ LastWriter(q) => store[tok[q]] = ref[q]

C8_Witness ==
  \E p, q \in Procs :
    /\ p # q /\ tok[p] # tok[q]
    /\ op[p] = "Present" /\ Done(p) /\ result[p] = "nil"
    /\ op[q] = "Present" /\ Done(q) /\ result[q] = "nil"
    /\ overlap /\ nCalls \in {cid[p], cid[q]}
    /\ LastWriter(p) /\ LastWriter(q)
    /\ store[tok[p]] = ref[p] /\ store[tok[q]] = ref[q]

(***************************************************************************)
(* C9. Every session opened by a call is closed before the call returns:   *)
(* an open connector always belongs to a call still in progress, and a     *)
(* returned call that opened a connector has logged it out.                *)
(***************************************************************************)
C9_SessionsClosed ==
  /\ openSessions \subseteq {sess[p] : p \in {q \in Procs : InFlight(q)}}
  /\ \A p \in Procs :
       (Done(p) /\ "ok" \in ResultsOf(p, "Open")) =>
         /\ ResultsOf(p, "Logout") # {}
         /\ sess[p] \notin openSessions

C9_Witness ==
  \E p, q \in Procs :
    /\ Done(p) /\ op[p] = "CleanUp" /\ result[p] = "errUnknown"
    /\ "ok" \in ResultsOf(p, "Open")
    /\ Done(q) /\ "fail" \in ResultsOf(q, "CreateRecord")
    /\ "ok" \in ResultsOf(q, "Open")
    /\ openSessions = {}

CreatedTTLs(p) ==
  {bops[p][i].ttl : i \in {j \in 1..Len(bops[p]) :
                             bops[p][j].call = "CreateRecord" /\ bops[p][j].res = "ok"}}

C11_TTLFloor ==
  /\ (backend = "cloudflare" /\ config.TTL < minTTL) => newErr # "nil"
  /\ newErr # "nil" => nCalls = 0 /\ records = {}
  /\ \A p \in Procs : \A t \in CreatedTTLs(p) :
       /\ config.TTL >= 0 /\ t = Word(config.TTL)
       /\ backend = "cloudflare" => config.TTL >= minTTL

(***************************************************************************)
(* C12. No internal retry: one Present issues at most one create request   *)
(* (and no delete request), one CleanUp at most one delete request (and    *)
(* no create request), whether the request succeeds or fails.              *)
(***************************************************************************)
\* The positions in p's current call of the backend calls named `name`.
CallsOf(p, name) == {j \in 1..Len(bops[p]) : bops[p][j].call = name}

C12_NoRetry ==
  \A p \in Procs :
    /\ Cardinality(CallsOf(p, "CreateRecord")) <= (IF op[p] = "Present" THEN 1 ELSE 0)
    /\ Cardinality(CallsOf(p, "DeleteRecord")) <= (IF op[p] = "CleanUp" THEN 1 ELSE 0)

C12_Witness ==
  \E p, q \in Procs :
    /\ Done(p) /\ op[p] = "Present" /\ ResultsOf(p, "CreateRecord") = {"fail"}
    /\ Done(q) /\ op[q] = "CleanUp" /\ ResultsOf(q, "DeleteRecord") = {"fail"}

(***************************************************************************)
(* C13. When zone resolution fails during Present (no zone found for the   *)
(* name, or the zone's ID cannot be looked up), Present has returned an    *)
(* error, has issued no create request and has made no map operation.      *)
(***************************************************************************)
ZoneResolutionFailed(p) ==
  \/ "fail" \in ResultsOf(p, "FindZoneByFqdn")
  \/ "fail" \in ResultsOf(p, "ZoneIDByName")

C13_ZoneFailure ==
  \A p \in Procs :
    (op[p] = "Present" /\ ZoneResolutionFailed(p)) =>
      /\ Done(p)
      /\ result[p] \in {"errFindZone", "errZoneID"}
      /\ CallsOf(p, "CreateRecord") = {}
      /\ sops[p] = <<>>
      /\ ref[p] = NoRef

C13_Witness ==
  \E p, q \in Procs :
    /\ op[p] = "Present" /\ Done(p) /\ "fail" \in ResultsOf(p, "FindZoneByFqdn")
    /\ op[q] = "Present" /\ Done(q) /\ "fail" \in ResultsOf(q, "ZoneIDByName")

MapAccess == {"Put", "Get", "Remove"}

MutexWait == {"LockPut", "LockGet", "LockRemove"}

\* The step is a read, write or delete of the map by caller p.
StoreAccess(p) == Len(sops'[p]) > Len(sops[p])

(***************************************************************************)
(* C15. Store operations are atomic: every read, write and delete of the   *)
(* map is a step of the caller that holds the mutex, taken while no other  *)
(* caller is inside a map operation, and the map changes in no other step; *)
(* so a lookup sees the map either before or after a whole write.          *)
(***************************************************************************)
C15_StoreOpsAtomic ==
  [][ /\ \A p \in Procs :
           StoreAccess(p) =>
             /\ mu = p /\ pc[p] \in MapAccess
             /\ \A q \in Procs \ {p} : pc[q] \notin MapAccess /\ ~StoreAccess(q)
             /\ mu' = Free
      /\ store' # store => \E p \in Procs : StoreAccess(p)
    ]_vars

C15_Witness ==
  \E p, q \in Procs :
    /\ p # q
    /\ pc[p] = "Get" /\ mu = p
    /\ pc[q] = "LockPut" /\ tok[q] = tok[p]
    /\ store[tok[p]] # NoRef

\* The step is a call of Timeout by caller p.
TimeoutCall(p) == op'[p] = "Timeout" /\ cid'[p] # cid[p]

(***************************************************************************)
(* C16. Timeout is a pure accessor: it returns exactly the configured      *)
(* propagation timeout and polling interval, makes no backend call and no  *)
(* map operation, takes no lock, and leaves the map, the backend and the   *)
(* configuration as they were.                                             *)
(***************************************************************************)
C16_TimeoutPure ==
  [][ \A p \in Procs :
        TimeoutCall(p) =>
          /\ timeout' = <<config.PropagationTimeout, config.PollingInterval>>
          /\ Done(p)' /\ bops'[p] = <<>> /\ sops'[p] = <<>>
          /\ UNCHANGED <<store, config, mu, records, openSessions, users>>
    ]_vars

C16_Witness ==
  \E p, q \in Procs :
    /\ Done(p) /\ op[p] = "Timeout" /\ nCalls = cid[p]
    /\ timeout = <<config.PropagationTimeout, config.PollingInterval>>
    /\ config.PropagationTimeout # NewDefaultConfig.PropagationTimeout
    /\ InFlight(q) /\ mu = q
    /\ \E t \in Tokens : store[t] # NoRef

(***************************************************************************)
(* C17. Token reuse and reference lifetime: once a CleanUp has looked up   *)
(* the reference under its token, deleted that record and removed the      *)
(* entry, and the callers serialised the calls for that token, no record   *)
(* whose reference a Present ever stored under the token remains at the    *)
(* backend, also when Present succeeded twice for the token before the     *)
(* CleanUp.                                                                *)
(***************************************************************************)
C17_NoRecordOutlivesRound ==
  \A p \in Procs :
    ( /\ Done(p) /\ op[p] = "CleanUp" /\ result[p] = "nil"
      /\ ResultsOf(p, "DeleteRecord") = {"ok"}
      /\ LastWriter(p)
      /\ ~raced )
    => putRefs[tok[p]] \cap records = {}

\* Positions of a call at which its next step is a backend request.
BackendStep == {"FindZone", "ZoneID", "Connect", "Create", "Delete", "Logout"}

(***************************************************************************)
(* C18. The mutex is never held while a backend call is in progress: its   *)
(* holder is always a caller between Lock and Unlock around one map        *)
(* operation, never one at a backend request and never one that has        *)
(* returned.  Hence concurrent calls do not deadlock, and every call that  *)
(* has started returns, given that each of its backend calls returns.      *)
(***************************************************************************)
C18_CallsReturn ==
  /\ [](\A p \in Procs :
          /\ mu = p => pc[p] \in MapAccess
          /\ pc[p] \in MapAccess => mu = p
          /\ pc[p] \in BackendStep \cup MutexWait \cup {"idle", "done"} => mu # p)
  /\ \A p \in Procs : InFlight(p) ~> Done(p)

C18_Witness ==
  \E p, q \in Procs :
    /\ p # q /\ Done(p) /\ Done(q)
    /\ raced /\ overlap /\ nCalls \in {cid[p], cid[q]}
    /\ StoreOpsOf(p, "Put") # {} /\ StoreOpsOf(q, "Get") # {}
    /\ ResultsOf(q, "DeleteRecord") # {}

\* The current call of p is a CleanUp that has returned an error.
CleanUpFailed(p) ==
  Done(p) /\ op[p] = "CleanUp" /\ result[p] \notin {"nil", "none"}

(***************************************************************************)
(* C19. A CleanUp that returns an error leaves the map as it was: the call *)
(* has made no write and no removal, only (at most) its lookup, so the     *)
(* entry it found is still there, unless a later call for the same token   *)
(* has written the map, and a later CleanUp can find it and try again.     *)
(***************************************************************************)
C19_ErrorKeepsStore ==
  \A p \in Procs :
    CleanUpFailed(p) =>
      /\ \A i \in 1..Len(sops[p]) : sops[p][i].call = "Get"
      /\ (found[p] /\ lastWriter[tok[p]] = ref[p]) => store[tok[p]] = ref[p]

C19_Witness ==
  \E p, q \in Procs :
    /\ CleanUpFailed(p) /\ found[p] /\ ResultsOf(p, "DeleteRecord") = {"fail"}
    /\ Done(q) /\ op[q] = "CleanUp" /\ tok[q] = tok[p] /\ cid[q] > cid[p]
    /\ ref[q] = ref[p] /\ result[q] = "nil" /\ ResultsOf(q, "DeleteRecord") = {"ok"}
    /\ ~raced

\* The current (or last) calls of p and q have both issued a delete request
\* for one reference, p's call having started first.
DeletedTwice(p, q) ==
  /\ cid[p] < cid[q]
  /\ \E i \in CallsOf(p, "DeleteRecord"), j \in CallsOf(q, "DeleteRecord") :
       bops[p][i].arg = bops[q][j].arg

(***************************************************************************)
(* C20, as claimed.  For each reference stored by a successful Present at  *)
(* most one DeleteRecord request is ever issued, under any interleaving of *)
(* CleanUp calls: no two calls have both issued one for the same           *)
(* reference.                                                              *)
(***************************************************************************)
C20_AtMostOneDelete ==
  \A p, q \in Procs : ~DeletedTwice(p, q)

(***************************************************************************)
(* C20, as the code has it.  When the callers serialise the calls for each *)
(* token, a second DeleteRecord request for a reference is issued only     *)
(* after the request of an earlier CleanUp for it did not succeed and that *)
(* CleanUp returned the error, keeping the entry for the retry (infoblox   *)
(* only: cloudflare removes the entry whatever the request's outcome).     *)
(* Two CleanUp calls for the same token that run concurrently can both     *)
(* look up the reference before either removes the entry, and both issue   *)
(* the request.                                                            *)
(***************************************************************************)
C20_SecondDeleteOnlyAsRetry ==
  \A p, q \in Procs :
    (DeletedTwice(p, q) /\ ~raced) =>
      /\ backend = "infoblox"
      /\ CleanUpFailed(p) /\ result[p] = "errDelete"
      /\ "ok" \notin ResultsOf(p, "DeleteRecord")
      /\ Len(sops[p]) = 1
      /\ tok[q] = tok[p]

C20_Witness ==
  \E p, q \in Procs :
    /\ DeletedTwice(p, q) /\ ~raced
    /\ ResultsOf(p, "DeleteRecord") = {"notfound"}
    /\ pc[q] = "Logout" /\ result[q] = "errDelete"

====
